---- MODULE Spec2Model ----
(***************************************************************************)
(* A model of the plant-disease training pipeline: the Metaflow flow       *)
(* main_flow (src/src/main_flow.py) and the data transforms of             *)
(* src/src/utils.py.                                                       *)
(*                                                                         *)
(* Numbers that are floats in the program are fixed-point here: a          *)
(* coordinate c stands for c / CoordDen pixels, a confidence k stands for  *)
(* k / ConfDen.  Both denominators are powers of two, so every value of    *)
(* the model is exactly representable as a float32 and as a float, and the *)
(* products the program forms (100 * confidence, rel * width) are exact.   *)
(***************************************************************************)
EXTENDS Integers, Sequences, FiniteSets, TLC

VARIABLES
    environ,        \* os.environ of the process that launches the flow
    TESTING,        \* the flow parameter 'testing'
    pc,             \* the step Metaflow runs next, "done" or "failed"
    started,        \* the steps that have begun, in order
    completed,      \* the steps that have reached their self.next (or returned)
    error,          \* the exception that ended the run, "None" when there is none
    self,           \* the flow's attributes: a function from attribute name to value
    fs,             \* the files of each execution environment
    s3,             \* the objects put to the run's S3 location: url -> data
    fit,            \* the calls of model.fit: what was passed
    wandb_runs,     \* the ids of the wandb runs that were initialised
    endpoints,      \* SageMaker endpoints: name -> "InService" | "Deleted"
    n_examples,     \* the number of records val_dataset.take(num_examples) yields
    table,          \* the wandb table: the number of rows and the last row added
    class_mapping,  \* utils.class_mapping, a module-level dict
    args,           \* the arguments of a direct call of convert_format_keras_to_wandb
    example,        \* the argument of a direct call of parse_tfrecord_fn
    ret,            \* what the last direct call returned
    called          \* the function the last direct call called

vars == <<environ, TESTING, pc, started, completed, error, self, fs, s3, fit,
          wandb_runs, endpoints, n_examples, table, class_mapping, args,
          example, ret, called>>

flowVars == <<environ, TESTING, pc, started, completed, error, self, fs, s3,
              fit, wandb_runs, endpoints, n_examples, table>>

(***************************************************************************)
(* Bounds of the model.                                                    *)
(***************************************************************************)
\* the longest box list given to the transforms
MaxBoxes == 2
\* the largest number of batches a TFRecord file holds
MaxBatches == 2
\* the resolution of the coordinates: c stands for c / CoordDen
CoordDen == 4
\* the resolution of the confidences: k stands for k / ConfDen
ConfDen == 8

(***************************************************************************)
(* utils.py: class_mapping                                                 *)
(***************************************************************************)
class_mapping_init ==
    ( 1 :> "Apple Scab Leaf" @@ 2 :> "Apple leaf" @@ 3 :> "Apple rust leaf" @@
      4 :> "Bell_pepper leaf" @@ 5 :> "Bell_pepper leaf spot" @@
      6 :> "Blueberry leaf" @@ 7 :> "Cherry leaf" @@
      8 :> "Corn Gray leaf spot" @@ 9 :> "Corn leaf blight" @@
      10 :> "Corn rust leaf" @@ 11 :> "Peach leaf" @@ 12 :> "Potato leaf" @@
      13 :> "Potato leaf early blight" @@ 14 :> "Potato leaf late blight" @@
      15 :> "Raspberry leaf" @@ 16 :> "Soyabean leaf" @@ 17 :> "Soybean leaf" @@
      18 :> "Squash Powdery mildew leaf" @@ 19 :> "Strawberry leaf" @@
      20 :> "Tomato Early blight leaf" @@ 21 :> "Tomato Septoria leaf spot" @@
      22 :> "Tomato leaf" @@ 23 :> "Tomato leaf bacterial spot" @@
      24 :> "Tomato leaf late blight" @@ 25 :> "Tomato leaf mosaic virus" @@
      26 :> "Tomato leaf yellow virus" @@ 27 :> "Tomato mold leaf" @@
      28 :> "Tomato two spotted spider mites leaf" @@ 29 :> "grape leaf" @@
      30 :> "grape leaf black rot" )

\* create_model: num_classes = len(class_mapping)
num_classes == Cardinality(DOMAIN class_mapping)

\* The class ids a RetinaNet head with num_classes outputs can predict.
PredictableClasses == 0 .. (num_classes - 1)

(***************************************************************************)
(* Python built-ins used by convert_format_keras_to_wandb.                 *)
(***************************************************************************)
\* int(x) of the float n / d: truncation towards zero.
int(n, d) == IF n >= 0 THEN n \div d ELSE -((-n) \div d)

\* round(x) as rounding half up, floor(x + 0.5).
round_half_up(n, d) == (2 * n + d) \div (2 * d)

\* round(x) of the float n / d (d > 0): to the nearest integer, ties to even.
round(n, d) ==
    LET f == n \div d
        r == n - f * d
    IN  IF 2 * r < d THEN f
        ELSE IF 2 * r > d THEN f + 1
        ELSE IF f % 2 = 0 THEN f ELSE f + 1

\* Truth value of the confidence_list argument: None and [] are false.
Truthy(confidence_list) ==
    ~confidence_list.is_none /\ Len(confidence_list.items) > 0

None == [is_none |-> TRUE, items |-> <<>>]
List(items) == [is_none |-> FALSE, items |-> items]

Returned(v) == [raised |-> "None", value |-> v]
Raised(exc) == [raised |-> exc, value |-> <<>>]

(***************************************************************************)
(* utils.py: convert_format_keras_to_wandb                                 *)
(***************************************************************************)
\* The body of the loop for entry b_i (1-based here, 0-based in the source).
box_data(box_list, classes_list, confidence_list, b_i) ==
    LET box == box_list[b_i]
        minX == int(box[1], CoordDen)
        maxX == int(box[3], CoordDen)
        minY == int(box[2], CoordDen)
        maxY == int(box[4], CoordDen)
        class_id == int(classes_list[b_i], 1)
        position == [minX |-> minX, maxX |-> maxX, minY |-> minY, maxY |-> maxY]
    IN  IF Truthy(confidence_list)
        THEN LET confidence == round(100 * confidence_list.items[b_i], ConfDen)
             IN  [position |-> position,
                  class_id |-> class_id,
                  box_caption |-> class_mapping[class_id] \o " (" \o
                                  ToString(confidence) \o "%)",
                  domain |-> "pixel"]
        ELSE [position |-> position,
              class_id |-> class_id,
              box_caption |-> class_mapping[class_id],
              domain |-> "pixel"]

\* The exception entry b_i raises, "None" when it raises none.
box_raises(box_list, classes_list, confidence_list, b_i) ==
    IF b_i > Len(classes_list) THEN "IndexError"
    ELSE IF Truthy(confidence_list) /\ b_i > Len(confidence_list.items)
    THEN "IndexError"
    ELSE IF int(classes_list[b_i], 1) \notin DOMAIN class_mapping THEN "KeyError"
    ELSE "None"

RECURSIVE convert_loop(_, _, _, _, _)
convert_loop(box_list, classes_list, confidence_list, b_i, all_boxes) ==
    IF b_i > Len(box_list) THEN Returned(all_boxes)
    ELSE LET exc == box_raises(box_list, classes_list, confidence_list, b_i)
         IN  IF exc # "None" THEN Raised(exc)
             ELSE convert_loop(box_list, classes_list, confidence_list, b_i + 1,
                      Append(all_boxes,
                             box_data(box_list, classes_list, confidence_list, b_i)))

convert_format_keras_to_wandb(box_list, classes_list, confidence_list) ==
    convert_loop(box_list, classes_list, confidence_list, 1, <<>>)

(***************************************************************************)
(* utils.py: parse_tfrecord_fn                                             *)
(***************************************************************************)
\* A serialized example: image/encoded (a jpeg of some height and width),
\* image/height, image/width, the relative box coordinates (numerators over
\* CoordDen) and the labels.  The image is the decoded jpeg: its shape is the
\* jpeg's, the image/height and image/width features are parsed and not used.
parse_tfrecord_fn(ex) ==
    LET img == [height |-> ex.encoded.height, width |-> ex.encoded.width,
                channels |-> 3, jpeg |-> ex.encoded.jpeg]
        labels == ex.label
        \* rel_boxes = stack([xmin, ymin, xmax, ymax]); rel_xyxy -> xyxy scales
        \* x by the image width and y by the image height
        boxes == [k \in 1 .. Len(ex.xmin) |->
                    << ex.xmin[k] * img.width, ex.ymin[k] * img.height,
                       ex.xmax[k] * img.width, ex.ymax[k] * img.height >>]
    IN  [images |-> img,
         bounding_boxes |-> [classes |-> labels, boxes |-> boxes]]

(***************************************************************************)
(* The data the program meets.                                             *)
(***************************************************************************)
\* The labels of the objects in the TFRecord files: the ids of class_mapping.
RecordLabels == DOMAIN class_mapping_init

\* Serialized examples with one object, one per label, its box at
\* (1/4, 1/4) - (3/4, 1) of a 10 x 6 image.
OneObjectExamples ==
    { [encoded |-> [jpeg |-> "jpeg-a", height |-> 6, width |-> 10],
       height |-> 6, width |-> 10,
       xmin |-> <<1>>, ymin |-> <<1>>, xmax |-> <<3>>, ymax |-> <<CoordDen>>,
       label |-> <<l>>] : l \in RecordLabels }

\* Serialized examples with n objects, the k-th with label k.
ManyObjectExample(n) ==
    [encoded |-> [jpeg |-> "jpeg-b", height |-> 3, width |-> 5],
     height |-> 3, width |-> 5,
     xmin |-> [k \in 1 .. n |-> 0], ymin |-> [k \in 1 .. n |-> 1],
     xmax |-> [k \in 1 .. n |-> k], ymax |-> [k \in 1 .. n |-> CoordDen],
     label |-> [k \in 1 .. n |-> k]]

ValRecords == OneObjectExamples \cup { ManyObjectExample(n) : n \in 0 .. MaxBoxes }

\* Boxes in xyxy order, as numerators over CoordDen.
BoxSamples == { << -(CoordDen + 2), 1, 2 * CoordDen + 2, 2 * CoordDen + 1 >>,
                << 0, 0, 416 * CoordDen, 416 * CoordDen >> }

\* The confidences MultiClassNonMaxSuppression lets through:
\* confidence_threshold = 0.6.
ModelConfidences == { k \in 0 .. ConfDen : 10 * k >= 6 * ConfDen }

\* What a prediction decodes to: boxes, classes and confidences of equal length.
Prediction(boxes, classes, confidence) ==
    [boxes |-> boxes, classes |-> classes, confidence |-> confidence]

Predictions ==
    { Prediction(<<>>, <<>>, <<>>) }
    \cup { Prediction(<<b>>, <<c>>, <<CHOOSE k \in ModelConfidences : TRUE>>) :
             b \in { CHOOSE b \in BoxSamples : TRUE }, c \in PredictableClasses }
    \cup { Prediction([k \in 1 .. n |-> CHOOSE b \in BoxSamples : TRUE],
                      [k \in 1 .. n |-> c + k],
                      [k \in 1 .. n |-> ConfDen]) :
             n \in 2 .. MaxBoxes, c \in {0, 9} }

\* The images evaluate_model meets: a record of the validation file and the
\* prediction of the model for it.  The two are converted by separate calls,
\* so each is varied with the other held fixed.
ValImages ==
    { [record |-> r, y_pred |-> Prediction(<<>>, <<>>, <<>>)] : r \in ValRecords }
    \cup { [record |-> ManyObjectExample(1), y_pred |-> p] : p \in Predictions }

(***************************************************************************)
(* main_flow.py: the flow                                                  *)
(***************************************************************************)
\* Parameter 'testing': default=True
TESTING_default == TRUE

\* The variables start asserts, in the order of the assert statements.
RequiredEnv == << "WANDB_API_KEY", "WANDB_ENTITY", "WANDB_PROJECT",
                  "S3_BUCKET_ADDRESS", "KAGGLE_USERNAME", "KAGGLE_KEY",
                  "IAM_ROLE_SAGEMAKER" >>

\* The environment a step runs in: augment_data_train_model carries @batch,
\* the other steps carry no decorator and run where the flow was launched.
step_env(step) ==
    IF step = "augment_data_train_model" THEN "batch" ELSE "local"

\* The assignment with run_id kept in a local variable instead of self.
SetAttr_run_id_local(obj, name, value) ==
    IF name = "run_id" THEN obj ELSE (name :> value) @@ obj

\* self.<name> = value
SetAttr(obj, name, value) == (name :> value) @@ obj

\* The step raised exc: Metaflow stops the run, no later step is scheduled.
Fail(step, exc) ==
    /\ pc' = "failed"
    /\ error' = exc
    /\ started' = IF started # <<>> /\ started[Len(started)] = step
                  THEN started ELSE Append(started, step)
    /\ UNCHANGED completed

\* self.next(next_step) at the end of step
SelfNext(step, next_step) ==
    /\ pc' = next_step
    /\ started' = IF started # <<>> /\ started[Len(started)] = step
                  THEN started ELSE Append(started, step)
    /\ completed' = Append(completed, step)
    /\ UNCHANGED error

\* start with the asserts compiled away: only a name that is not set raises.
start_raises_unset_only ==
    IF \E k \in 1 .. Len(RequiredEnv) : RequiredEnv[k] \notin DOMAIN environ
    THEN "KeyError" ELSE "None"

\* The first assert of start that fails: os.environ[name] raises KeyError for
\* a name that is not set, assert raises AssertionError for an empty value.
start_raises ==
    LET bad == { k \in 1 .. Len(RequiredEnv) :
                    \/ RequiredEnv[k] \notin DOMAIN environ
                    \/ environ[RequiredEnv[k]] = "" }
    IN  IF bad = {} THEN "None"
        ELSE LET k == CHOOSE j \in bad : \A m \in bad : j <= m
             IN  IF RequiredEnv[k] \notin DOMAIN environ
                 THEN "KeyError" ELSE "AssertionError"

start ==
    /\ pc = "start"
    /\ IF start_raises = "None"
       THEN SelfNext("start", "augment_data_train_model")
       ELSE Fail("start", start_raises)
    /\ UNCHANGED <<environ, TESTING, self, fs, s3, fit, wandb_runs, endpoints,
                   n_examples, table, class_mapping, args, example, ret, called>>

\* self.config as assigned at the top of augment_data_train_model
config_init ==
    [base_lr |-> "0.0001", loss |-> "sparse_categorical_crossentropy",
     epoch |-> 40, batch_size |-> 32, classification_loss |-> "focal",
     box_loss |-> "smoothl1", num_examples |-> 6, bbox_format |-> "xyxy",
     img_size |-> 416, patience |-> 6, iou_threshold |-> "0.2",
     confidence_threshold |-> "0.6"]

\* The numbers of records a TFRecord file of at most MaxBatches batches holds:
\* the first and the last size of each number of batches.
RecordCounts(batch_size) ==
    UNION { { (k - 1) * batch_size + 1, k * batch_size } : k \in 1 .. MaxBatches }

\* Dataset.ragged_batch(batch_size): the number of batches of n records
ragged_batch(n, batch_size) == (n + batch_size - 1) \div batch_size

\* take that takes nothing away.
take_all(n, count) == n

\* Dataset.take(count) of a dataset of n elements
take(n, count) == IF n < count THEN n ELSE count

\* wandb.init: the id of the run it starts
RunIds == { "wandb-run-1" }

\* S3(run=self).put(key, data): the url the object is stored at
s3_put_url(key) == "s3://metaflow/main_flow/run/" \o key

augment_data_train_model ==
    /\ pc = "augment_data_train_model"
    /\ \E n_train \in RecordCounts(config_init.batch_size),
          n_val \in RecordCounts(config_init.batch_size),
          run_id \in RunIds :
        LET here == step_env("augment_data_train_model")
            train_tfrecord_file == "train_leaves.tfrecord"
            val_tfrecord_file == "val_test_leaves.tfrecord"
            train_all == ragged_batch(n_train, config_init.batch_size)
            val_all == ragged_batch(n_val, config_init.batch_size)
            train_dataset == IF TESTING THEN take(train_all, 1) ELSE train_all
            val_dataset == IF TESTING THEN take(val_all, 1) ELSE val_all
            config == IF TESTING THEN [config_init EXCEPT !.epoch = 2]
                      ELSE config_init
            checkpoint_path == "best-custom-model.weights.h5"
            model_name == "detection-model-" \o config.base_lr \o "/1"
            local_tar_name == "model-" \o config.base_lr \o ".tar.gz"
            url == s3_put_url(local_tar_name)
        IN  /\ fs' = [fs EXCEPT ![here] = @ \cup
                        { train_tfrecord_file, val_tfrecord_file,
                          checkpoint_path, model_name, local_tar_name }]
            /\ wandb_runs' = wandb_runs \cup { run_id }
            /\ fit' = Append(fit,
                        [train_batches |-> train_dataset,
                         train_file_batches |-> train_all,
                         validation_batches |-> val_dataset,
                         validation_file_batches |-> val_all,
                         epochs |-> config.epoch])
            /\ s3' = (url :> [tar_of |-> model_name]) @@ s3
            /\ self' = SetAttr(SetAttr(SetAttr(SetAttr(SetAttr(SetAttr(self,
                          "config", config),
                          "train_tfrecord_file", train_tfrecord_file),
                          "val_tfrecord_file", val_tfrecord_file),
                          "run_id", run_id),
                          "model", [model |-> "RetinaNet.to_json",
                                    model_weights |-> checkpoint_path]),
                          "s3_path", url)
    /\ SelfNext("augment_data_train_model", "evaluate_model")
    /\ UNCHANGED <<environ, TESTING, endpoints, n_examples, table,
                   class_mapping, args, example, ret, called>>

\* The attributes among names that self does not have (AttributeError).
missing_attr(names) == { n \in names : n \notin DOMAIN self }

\* evaluate_model up to the first iteration of its for loop: wandb.init,
\* create_model, model.set_weights, and the dataset over val_tfrecord_file,
\* which is read when the loop asks for its first element.
evaluate_model ==
    /\ pc = "evaluate_model"
    /\ IF missing_attr({"config", "run_id"}) # {}
       THEN \* wandb.init(config=self.config, id=self.run_id)
            /\ Fail("evaluate_model", "AttributeError")
            /\ UNCHANGED <<wandb_runs, n_examples, table>>
       ELSE /\ wandb_runs' = wandb_runs \cup { self["run_id"] }
            /\ IF missing_attr({"val_tfrecord_file", "model"}) # {}
               THEN /\ Fail("evaluate_model", "AttributeError")
                    /\ UNCHANGED <<n_examples, table>>
               ELSE IF self["val_tfrecord_file"] \notin fs[step_env("evaluate_model")]
               THEN /\ Fail("evaluate_model", "NotFoundError")
                    /\ UNCHANGED <<n_examples, table>>
               ELSE /\ \E n_val \in RecordCounts(self["config"].batch_size) :
                         n_examples' = take(n_val, self["config"].num_examples)
                    /\ table' = [rows |-> 0, last |-> <<>>]
                    /\ pc' = "evaluate_model:for"
                    /\ started' = Append(started, "evaluate_model")
                    /\ UNCHANGED <<completed, error>>
    /\ UNCHANGED <<environ, TESTING, self, fs, s3, fit, endpoints,
                   class_mapping, args, example, ret, called>>

\* One iteration of the for loop of evaluate_model: a record of the
\* validation file and what the model predicts for its image.
evaluate_model_example ==
    /\ pc = "evaluate_model:for"
    /\ table.rows < n_examples
    /\ \E image \in ValImages :
        LET record == image.record
            y_pred == image.y_pred
            ex == parse_tfrecord_fn(record)
            boxes == ex.bounding_boxes.boxes
            classes == ex.bounding_boxes.classes
            ground_truth == convert_format_keras_to_wandb(boxes, classes, None)
            \* self.confidence, self.box_list, self.classes_list
            confidence == y_pred.confidence
            box_list == y_pred.boxes
            classes_list == y_pred.classes
            predicted == IF box_list = <<>> THEN Returned(<<>>)
                         ELSE convert_format_keras_to_wandb(
                                  box_list, classes_list, List(confidence))
            \* self.image, self.confidence, self.y_pred, self.boxes,
            \* self.classes carry a batch dimension of one
            self_after == SetAttr(SetAttr(SetAttr(SetAttr(SetAttr(SetAttr(
                          SetAttr(self,
                              "image", <<ex.images>>),
                              "confidence", confidence),
                              "y_pred", [boxes |-> <<y_pred.boxes>>,
                                         classes |-> <<y_pred.classes>>]),
                              "boxes", <<y_pred.boxes>>),
                              "classes", <<y_pred.classes>>),
                              "box_list", box_list),
                              "classes_list", classes_list)
        IN  IF ground_truth.raised # "None"
            THEN /\ Fail("evaluate_model", ground_truth.raised)
                 /\ UNCHANGED <<self, table>>
            ELSE IF predicted.raised # "None"
            THEN /\ Fail("evaluate_model", predicted.raised)
                 /\ self' = self_after
                 /\ UNCHANGED table
            ELSE /\ self' = self_after
                 /\ table' = [rows |-> table.rows + 1,
                              last |-> << [ground_truth |-> ground_truth.value,
                                           has_boxes |-> box_list # <<>>,
                                           predictions |-> predicted.value] >>]
                 /\ UNCHANGED <<pc, started, completed, error>>
    /\ UNCHANGED <<environ, TESTING, fs, s3, fit, wandb_runs, endpoints,
                   n_examples, class_mapping, args, example, ret, called>>

\* evaluate_model ending with self.next(self.end).
evaluate_model_finish_to_end ==
    /\ pc = "evaluate_model:for"
    /\ table.rows = n_examples
    /\ SelfNext("evaluate_model", "end")
    /\ UNCHANGED <<environ, TESTING, self, fs, s3, fit, wandb_runs, endpoints,
                   n_examples, table, class_mapping, args, example, ret, called>>

\* The end of evaluate_model: the table is logged, the run finished.
evaluate_model_finish ==
    /\ pc = "evaluate_model:for"
    /\ table.rows = n_examples
    /\ SelfNext("evaluate_model", "deploy")
    /\ UNCHANGED <<environ, TESTING, self, fs, s3, fit, wandb_runs, endpoints,
                   n_examples, table, class_mapping, args, example, ret, called>>

\* ENDPOINT_NAME: 'detection-<milliseconds>-endpoint'
EndpointNames == { "detection-1720463605573-endpoint" }

deploy ==
    /\ pc = "deploy"
    /\ IF "s3_path" \notin DOMAIN self
       THEN \* TensorFlowModel(model_data=self.s3_path, ...)
            /\ Fail("deploy", "AttributeError")
            /\ UNCHANGED <<self, endpoints>>
       ELSE IF "IAM_ROLE_SAGEMAKER" \notin DOMAIN environ
       THEN /\ Fail("deploy", "KeyError")
            /\ UNCHANGED <<self, endpoints>>
       ELSE \E ENDPOINT_NAME \in EndpointNames, result \in Predictions :
            \* model.deploy has run: what raises from here on leaves the
            \* endpoint in service
            IF "train_tfrecord_file" \notin DOMAIN self \/ "config" \notin DOMAIN self
            THEN /\ endpoints' = (ENDPOINT_NAME :> "InService") @@ endpoints
                 /\ Fail("deploy", "AttributeError")
                 /\ UNCHANGED self
            ELSE IF self["train_tfrecord_file"] \notin fs[step_env("deploy")]
            THEN \* next(iter(test_image_dataset.take(1))) opens the file
                 /\ endpoints' = (ENDPOINT_NAME :> "InService") @@ endpoints
                 /\ Fail("deploy", "NotFoundError")
                 /\ UNCHANGED self
            ELSE \E n_train \in RecordCounts(self["config"].batch_size) :
                 IF take(n_train, 1) = 0
                 THEN /\ endpoints' = (ENDPOINT_NAME :> "InService") @@ endpoints
                      /\ Fail("deploy", "StopIteration")
                      /\ UNCHANGED self
                 ELSE LET \* self.result = result['predictions'][0]
                          boxes_tensor == result.boxes
                          classes_tensor == result.classes
                          tensor_dict == [boxes |-> boxes_tensor,
                                          classes |-> classes_tensor]
                          \* to_ragged drops the padding; a prediction of the
                          \* model carries none
                          y_pred == tensor_dict
                          boxes == y_pred.boxes
                          classes == y_pred.classes
                          \* if not self.box_list: ... else: the first of each
                          box_list == IF boxes = <<>> THEN boxes ELSE boxes[1]
                          classes_list == IF boxes = <<>> THEN classes
                                          ELSE classes[1]
                      IN  /\ self' = SetAttr(SetAttr(SetAttr(SetAttr(SetAttr(
                                     SetAttr(SetAttr(SetAttr(SetAttr(self,
                                         "result", [boxes |-> result.boxes,
                                                    classes |-> result.classes]),
                                         "boxes_tensor", boxes_tensor),
                                         "classes_tensor", classes_tensor),
                                         "tensor_dict", tensor_dict),
                                         "y_pred", y_pred),
                                         "boxes", boxes),
                                         "classes", classes),
                                         "box_list", box_list),
                                         "classes_list", classes_list)
                          \* predictor.delete_endpoint()
                          /\ endpoints' = (ENDPOINT_NAME :> "Deleted") @@ endpoints
                          /\ SelfNext("deploy", "end")
    /\ UNCHANGED <<environ, TESTING, fs, s3, fit, wandb_runs, n_examples,
                   table, class_mapping, args, example, ret, called>>

end ==
    /\ pc = "end"
    /\ SelfNext("end", "done")
    /\ UNCHANGED <<environ, TESTING, self, fs, s3, fit, wandb_runs, endpoints,
                   n_examples, table, class_mapping, args, example, ret, called>>

(***************************************************************************)
(* The flow as a whole: `python main_flow.py run [--testing ...]`.         *)
(***************************************************************************)
\* os.environ after load_dotenv: any of the names may be missing or empty.
Environments ==
    UNION { [D -> {"", "x"}] :
            D \in SUBSET { RequiredEnv[k] : k \in 1 .. Len(RequiredEnv) } }

Init ==
    /\ environ \in Environments
    /\ TESTING \in { TESTING_default, ~TESTING_default }
    /\ pc = "start"
    /\ started = <<>>
    /\ completed = <<>>
    /\ error = "None"
    /\ self = <<>>
    \* the directory the flow is launched from may hold the TFRecord files
    /\ fs \in [ {"local", "batch"} ->
                SUBSET {"train_leaves.tfrecord", "val_test_leaves.tfrecord"} ]
    /\ fs["batch"] = {}
    /\ s3 = <<>>
    /\ fit = <<>>
    /\ wandb_runs = {}
    /\ endpoints = <<>>
    /\ n_examples = 0
    /\ table = [rows |-> 0, last |-> <<>>]
    /\ class_mapping = class_mapping_init
    /\ args = [box_list |-> <<>>, classes_list |-> <<>>, confidence_list |-> None]
    /\ example = ManyObjectExample(0)
    /\ ret = Returned(<<>>)
    /\ called = "None"

Next ==
    \/ start
    \/ augment_data_train_model
    \/ evaluate_model
    \/ evaluate_model_example
    \/ evaluate_model_finish
    \/ deploy
    \/ end

Spec == Init /\ [][Next]_vars

(***************************************************************************)
(* The transforms of utils.py called on their own.                         *)
(***************************************************************************)
\* The class ids the program gives to convert_format_keras_to_wandb: the
\* labels of the records and the classes the model can predict.
ClassIds == RecordLabels \cup PredictableClasses

\* The confidence_list arguments for n boxes with confidences from confs.
ConfidenceLists(n, confs) ==
    { None, List(<<>>) } \cup { List(c) : c \in [1 .. n -> confs] }

ConvertArgs(box_list, classes_list, confidence_list) ==
    [box_list |-> box_list, classes_list |-> classes_list,
     confidence_list |-> confidence_list]

\* Box lists with class lists of the same length: no box, one box with every
\* class id and confidence, and longer lists over a few of each.
ConvertInputs ==
    { ConvertArgs(<<>>, <<>>, c) : c \in { None, List(<<>>) } }
    \cup { ConvertArgs(<<b>>, <<c>>, cl) :
             b \in BoxSamples, c \in ClassIds,
             cl \in ConfidenceLists(1, 0 .. ConfDen) }
    \cup UNION { { ConvertArgs(b, c, cl) :
                     b \in [1 .. n -> BoxSamples],
                     c \in [1 .. n -> {0, 1, num_classes}],
                     cl \in ConfidenceLists(n, ModelConfidences \ {ConfDen - 1}) } :
                 n \in 2 .. MaxBoxes }

\* The arguments a caller passes after an earlier call.
LaterInputs ==
    { ConvertArgs(<<b>>, <<num_classes>>, cl) :
        b \in BoxSamples, cl \in { None, List(<<ConfDen>>) } }

\* A caller calls convert_format_keras_to_wandb(**args).
call_convert_format_keras_to_wandb ==
    /\ pc = "caller"
    /\ ret' = convert_format_keras_to_wandb(
                  args.box_list, args.classes_list, args.confidence_list)
    /\ called' = "convert_format_keras_to_wandb"
    /\ UNCHANGED <<flowVars, class_mapping, args, example>>

\* A caller calls parse_tfrecord_fn(example).
call_parse_tfrecord_fn ==
    /\ pc = "caller"
    /\ ret' = Returned(parse_tfrecord_fn(example))
    /\ called' = "parse_tfrecord_fn"
    /\ UNCHANGED <<flowVars, class_mapping, args, example>>

\* The caller binds other arguments for its next calls.
next_arguments ==
    /\ pc = "caller"
    /\ called # "None"
    /\ args' \in LaterInputs
    /\ example' = ManyObjectExample(1)
    /\ called' = "None"
    /\ UNCHANGED <<flowVars, class_mapping, ret>>

InitFn ==
    /\ environ = <<>>
    /\ TESTING = TESTING_default
    /\ pc = "caller"
    /\ started = <<>>
    /\ completed = <<>>
    /\ error = "None"
    /\ self = <<>>
    /\ fs = [e \in {"local", "batch"} |-> {}]
    /\ s3 = <<>>
    /\ fit = <<>>
    /\ wandb_runs = {}
    /\ endpoints = <<>>
    /\ n_examples = 0
    /\ table = [rows |-> 0, last |-> <<>>]
    /\ class_mapping = class_mapping_init
    /\ \/ args \in ConvertInputs /\ example = ManyObjectExample(0)
       \/ args = ConvertArgs(<<>>, <<>>, None) /\ example \in ValRecords
    /\ ret = Returned(<<>>)
    /\ called = "None"

NextFn ==
    \/ call_convert_format_keras_to_wandb
    \/ call_parse_tfrecord_fn
    \/ next_arguments

SpecFn == InitFn /\ [][NextFn]_vars

(***************************************************************************)
(* Properties.                                                             *)
(***************************************************************************)
StageOrder == << "start", "augment_data_train_model", "evaluate_model",
                 "deploy", "end" >>

IsPrefix(p, q) == Len(p) <= Len(q) /\ \A k \in 1 .. Len(p) : p[k] = q[k]

\* C1: the steps run in the single order start, augment_data_train_model,
\* evaluate_model, deploy, end: the steps begun and the steps completed are
\* prefixes of that order (so no step runs twice and none is skipped), a step
\* begins only when all before it have completed, and the run is done only
\* when all five have completed.
C1_StageOrder ==
    /\ IsPrefix(started, StageOrder)
    /\ IsPrefix(completed, StageOrder)
    /\ Len(completed) <= Len(started)
    /\ Len(started) <= Len(completed) + 1
    /\ pc \in { StageOrder[k] : k \in 1 .. Len(StageOrder) }
          => completed = SubSeq(StageOrder, 1,
                 (CHOOSE k \in 1 .. Len(StageOrder) : StageOrder[k] = pc) - 1)
    /\ pc = "evaluate_model:for"
          => completed = SubSeq(StageOrder, 1, 2) /\ started = SubSeq(StageOrder, 1, 3)
    /\ pc = "done" => completed = StageOrder

C1_Witness == pc = "done" /\ started = StageOrder /\ completed = StageOrder

\* C2: when evaluate_model is about to start, config, run_id,
\* val_tfrecord_file and model (with model_weights) are attributes of the
\* flow; when deploy is about to start, s3_path, config and
\* train_tfrecord_file are, and s3_path is the url under which the tarball of
\* the saved model was put to S3.
C2_AttributesAssigned ==
    /\ pc \in {"evaluate_model", "evaluate_model:for"} =>
          /\ {"config", "run_id", "val_tfrecord_file", "model"} \subseteq DOMAIN self
          /\ "model_weights" \in DOMAIN self["model"]
          /\ self["run_id"] \in wandb_runs
    /\ pc = "deploy" =>
          /\ {"s3_path", "config", "train_tfrecord_file"} \subseteq DOMAIN self
          /\ self["s3_path"] \in DOMAIN s3
          /\ s3[self["s3_path"]].tar_of = "detection-model-0.0001/1"
          /\ self["s3_path"] = s3_put_url("model-0.0001.tar.gz")

C2_Witness ==
    /\ pc = "deploy"
    /\ "s3_path" \in DOMAIN self
    /\ self["s3_path"] \in DOMAIN s3
    /\ completed = SubSeq(StageOrder, 1, 3)

AllEnvSet ==
    \A k \in 1 .. Len(RequiredEnv) :
        RequiredEnv[k] \in DOMAIN environ /\ environ[RequiredEnv[k]] # ""

\* C3: if one of the seven variables is unset or empty, start ends in an
\* error and nothing after it happens: no step completes, nothing is trained,
\* nothing is uploaded, no endpoint exists; if all seven are set and
\* non-empty, start goes on to augment_data_train_model.
C3_StartFailsFast ==
    /\ ~AllEnvSet =>
          /\ pc \in {"start", "failed"}
          /\ completed = <<>>
          /\ fit = <<>> /\ s3 = <<>> /\ endpoints = <<>> /\ wandb_runs = {}
          /\ pc = "failed" => /\ started = <<"start">>
                              /\ error \in {"KeyError", "AssertionError"}
    /\ AllEnvSet /\ pc # "start" =>
          /\ Len(completed) >= 1 /\ completed[1] = "start"
          /\ Len(started) >= 2 \/ pc = "augment_data_train_model"
          /\ started = <<"start">> => error = "None"

C3_Witness ==
    /\ pc = "failed"
    /\ started = <<"start">>
    /\ error = "AssertionError"
    /\ DOMAIN environ = { RequiredEnv[k] : k \in 1 .. Len(RequiredEnv) }
    /\ \A k \in 1 .. Len(RequiredEnv) :
          (environ[RequiredEnv[k]] = "") <=> (k = Len(RequiredEnv))

\* int(x) stated by what it returns: the integer m of the same sign as x with
\* |m| <= |x| < |m| + 1.
IsIntOf(m, n, d) ==
    LET an == IF n >= 0 THEN n ELSE -n
        am == IF m >= 0 THEN m ELSE -m
    IN  /\ am * d <= an /\ an < (am + 1) * d
        /\ (n >= 0 => m >= 0) /\ (n <= 0 => m <= 0)

\* C4: for every box list with a class list of the same length the call
\* returns one entry per box, in order, with minX, minY, maxX, maxY = int of
\* box[0], box[1], box[2], box[3], class_id = int(classes_list[i]) and
\* domain "pixel".
C4_CoordinatesMap ==
    (called = "convert_format_keras_to_wandb"
        /\ Len(args.classes_list) = Len(args.box_list)) =>
    /\ ret.raised = "None"
    /\ Len(ret.value) = Len(args.box_list)
    /\ \A k \in 1 .. Len(args.box_list) :
          /\ IsIntOf(ret.value[k].position.minX, args.box_list[k][1], CoordDen)
          /\ IsIntOf(ret.value[k].position.minY, args.box_list[k][2], CoordDen)
          /\ IsIntOf(ret.value[k].position.maxX, args.box_list[k][3], CoordDen)
          /\ IsIntOf(ret.value[k].position.maxY, args.box_list[k][4], CoordDen)
          /\ ret.value[k].class_id = args.classes_list[k]
          /\ ret.value[k].domain = "pixel"

\* C6: testing is true by default; when it is true, training and validation
\* each use one batch and fit is given 2 epochs; when it is false, they use
\* every batch of their files and fit is given 40 epochs.
C6_Testing ==
    /\ TESTING_default = TRUE
    /\ \A k \in 1 .. Len(fit) :
          /\ TESTING => /\ fit[k].train_batches = 1
                        /\ fit[k].validation_batches = 1
                        /\ fit[k].epochs = 2
          /\ ~TESTING => /\ fit[k].train_batches = fit[k].train_file_batches
                         /\ fit[k].validation_batches = fit[k].validation_file_batches
                         /\ fit[k].epochs = 40

C6_Witness ==
    /\ TESTING
    /\ Len(fit) = 1
    /\ fit[1].train_file_batches > 1
    /\ fit[1].validation_file_batches > 1
    /\ fit[1].epochs = 2

\* round(x) stated by what it returns: the integer nearest to x = n / d, the
\* even one of the two when x is half-way between them.
IsRoundOf(p, n, d) ==
    LET diff == IF n >= p * d THEN n - p * d ELSE p * d - n
    IN  \/ 2 * diff < d
        \/ 2 * diff = d /\ p % 2 = 0

\* C7: the caption of entry i is class_mapping[class_id] when confidence_list
\* is None or empty, and class_mapping[class_id] followed by " (P%)" with
\* P = round(100 * confidence_list[i]) otherwise.
C7_Caption ==
    (called = "convert_format_keras_to_wandb" /\ ret.raised = "None") =>
    \A k \in 1 .. Len(ret.value) :
        LET name == class_mapping_init[ret.value[k].class_id]
            caption == ret.value[k].box_caption
        IN  IF args.confidence_list.is_none \/ args.confidence_list.items = <<>>
            THEN caption = name
            ELSE \E P \in 0 .. 100 :
                    /\ IsRoundOf(P, 100 * args.confidence_list.items[k], ConfDen)
                    /\ caption = name \o " (" \o ToString(P) \o "%)"

\* 100 * 5 / 8 = 62.5 is half-way: the caption says 62%.
C7_Witness ==
    /\ called = "convert_format_keras_to_wandb"
    /\ ret.raised = "None"
    /\ Len(ret.value) = 1
    /\ ~args.confidence_list.is_none
    /\ Len(args.confidence_list.items) = 1
    /\ 8 * args.confidence_list.items[1] = 5 * ConfDen
    /\ ret.value[1].box_caption = "Apple Scab Leaf (62%)"

\* C8: the files evaluate_model and deploy open are on the filesystem of the
\* environment these steps run in.
C8_FilesPresent ==
    /\ pc = "evaluate_model" =>
          self["val_tfrecord_file"] \in fs[step_env("evaluate_model")]
    /\ pc = "deploy" =>
          self["train_tfrecord_file"] \in fs[step_env("deploy")]

\* C9: every class id the model can predict and every label of the records
\* has a name in class_mapping, and evaluate_model never fails on a class id
\* without one.
C9_ClassIdsKnown ==
    ~(pc = "failed" /\ started[Len(started)] = "evaluate_model"
        /\ error = "KeyError")

====
